---------------------------- MODULE Spec2Model ----------------------------
(***************************************************************************)
(* A model of wimms, the node-assignment metadata store                    *)
(* (wimms/sql.py: SQLMetadata, wimms/shardedsql.py: ShardedSQLMetadata).   *)
(*                                                                         *)
(* The database is three tables (services, nodes, users).  Every SQL       *)
(* statement is one atomic step; a method that issues several statements   *)
(* is several steps, so that concurrent callers interleave between the     *)
(* statements exactly as the datastore lets them.  Each caller keeps the   *)
(* user dict it got from get_user / create_user and passes it to           *)
(* update_user, as the callers of the library do.                          *)
(*                                                                         *)
(* Service names are tuples of one-character strings, so that _dbkey's     *)
(* split('-') is computed on the characters.  Client-state strings are     *)
(* opaque tokens, modelled as naturals; 0 stands for the default ''.       *)
(***************************************************************************)
EXTENDS Integers, Sequences, FiniteSets, TLC

(***************************************************************************)
(* Bounds of the model.                                                    *)
(***************************************************************************)
MaxClock == 2          \* get_timestamp() returns 0..MaxClock
MaxGen == 2            \* generation numbers passed by callers: 0..MaxGen
MaxRows == 3           \* user rows in the store
MaxExtra == 2          \* user rows past RECORD_LIMIT in the long chain
MaxLoad == 3           \* node capacities and loads drawn at Init: 0..MaxLoad
MaxName == 5           \* length of the service names _dbkey is applied to
LogDepth == 6          \* denominators searched when comparing log ratios

(***************************************************************************)
(* Program constants.                                                      *)
(***************************************************************************)
NULL == -1             \* SQL NULL in replaced_at; timestamps are >= 0
None == NULL           \* Python None for an omitted generation/client_state
RECORD_LIMIT == 20     \* "limit 20" of _GET_USER_RECORDS
BIGINT_MAX == MaxGen + 1
    \* 9223372036854775807 of _RETIRE_USER_RECORDS, scaled: the largest
    \* value of the generation column, above every generation a caller of
    \* the model passes.

Procs == {1, 2}

\* Service names (tests: setUp registers these three).
SYNC_1_0 == <<"s", "y", "n", "c", "-", "1", ".", "0">>
SYNC_1_5 == <<"s", "y", "n", "c", "-", "1", ".", "5">>
QUEUEY_1_0 == <<"q", "u", "e", "u", "e", "y", "-", "1", ".", "0">>
UNKNOWN_SVC == <<"x">>

VARIABLES
    sharded,     \* TRUE: ShardedSQLMetadata, FALSE: SQLMetadata
    is_sqlite,   \* self._is_sqlite
    services,    \* rows of the services tables: [db, id, service]
    cache,       \* self._cached_service_ids: set of <<service, id>>
    nodes,       \* rows of the nodes tables
    users,       \* rows of the users tables
    lastuid,     \* autoincrement counter of users.uid, per database
    clock,       \* what get_timestamp() returns now (milliseconds)
    pc,          \* per caller: the statement it executes next
    user,        \* per caller: the user dict it holds (NoneUser: None)
    loc,         \* per caller: parameters and locals of the running call
    err,         \* per caller: the exception the last call raised ("" none)
    name         \* the service name a routing query is about

vars == <<sharded, is_sqlite, services, cache, nodes, users, lastuid,
          clock, pc, user, loc, err, name>>
config == <<sharded, is_sqlite>>
catalog == <<services>>


(***************************************************************************)
(* Pure helpers.                                                           *)
(***************************************************************************)
Max(a, b) == IF a >= b THEN a ELSE b

RECURSIVE Pow(_, _)
Pow(b, e) == IF e = 0 THEN 1 ELSE b * Pow(b, e - 1)

\* str.split('-')[0]: the characters before the first '-'.
RECURSIVE SplitFirst(_)
SplitFirst(s) ==
    IF s = <<>> THEN <<>>
    ELSE IF Head(s) = "-" THEN <<>>
    ELSE <<Head(s)>> \o SplitFirst(Tail(s))

\* ShardedSQLMetadata._dbkey
dbkey(service) == SplitFirst(service)

\* The engine of the unsharded SQLMetadata (self._engine).
MAIN_DB == <<"m", "a", "i", "n">>

\* _get_engine / _get_services_table / _get_nodes_table / _get_users_table:
\* the database a per-service statement runs against.
get_engine(service) == IF sharded THEN dbkey(service) ELSE MAIN_DB

(***************************************************************************)
(* Service catalog: _get_service_id with its read-through cache.           *)
(***************************************************************************)
CachedIds(service) == {c[2] : c \in {x \in cache : x[1] = service}}

StoredIds(service) ==
    {r.id : r \in {x \in services : x.db = get_engine(service)
                                    /\ x.service = service}}

\* FALSE: _get_service_id raises BackendError('unknown service').
KnownService(service) == CachedIds(service) # {} \/ StoredIds(service) # {}

get_service_id(service) ==
    IF CachedIds(service) # {}
    THEN CHOOSE i \in CachedIds(service) : TRUE
    ELSE CHOOSE i \in StoredIds(service) : TRUE

\* The cache after a successful _get_service_id(service).
CacheWith(service) == cache \cup {<<service, get_service_id(service)>>}

(***************************************************************************)
(* Users table.                                                            *)
(***************************************************************************)
NoneUser ==
    [email |-> "", uid |-> 0, node |-> "", generation |-> 0,
     client_state |-> 0, old_client_states |-> {}]

UserRecords(db, sid, email) ==
    {r \in users : r.db = db /\ r.service = sid /\ r.email = email}

\* "order by created_at desc, uid desc": a sorts before b.
SortsBefore(a, b) ==
    \/ a.created_at > b.created_at
    \/ a.created_at = b.created_at /\ a.uid > b.uid

\* The position (from 0) of row r in the ordered result.
Rank(r, S) == Cardinality({x \in S : SortsBefore(x, r)})

\* _GET_USER_RECORDS and the loop of get_user over its rows.
GetUserResult(db, sid, email) ==
    LET S == UserRecords(db, sid, email)
        rows == {r \in S : Rank(r, S) < RECORD_LIMIT}
    IN  IF rows = {} THEN NoneUser
        ELSE LET row == CHOOSE r \in rows : Rank(r, S) = 0
             IN  [email |-> email, uid |-> row.uid, node |-> row.node,
                  generation |-> row.generation,
                  client_state |-> row.client_state,
                  old_client_states |->
                      {r.client_state : r \in rows \ {row}}]

\* The uniqueness constraint of the users table that makes
\* _CREATE_USER_RECORD raise IntegrityError: no two rows of one
\* (service, email) carry the same client_state.
UniqueViolation(db, sid, email, client_state) ==
    \E r \in users : /\ r.db = db /\ r.service = sid
                     /\ r.email = email /\ r.client_state = client_state

\* Mutant of NewUid: one more than the largest uid still stored.
NewUid_AboveStored(db) ==
    IF {r \in users : r.db = db} = {} THEN 1
    ELSE 1 + CHOOSE m \in {r.uid : r \in {x \in users : x.db = db}} :
                 \A r \in users : r.db = db => r.uid <= m

\* res.lastrowid of an insert into users: the autoincrement uid.
NewUid(db) == lastuid[db] + 1

\* _CREATE_USER_RECORD
CreateUserRecord(db, sid, email, node, generation, client_state, timestamp) ==
    users \cup {[db |-> db, uid |-> NewUid(db), service |-> sid,
                 email |-> email, node |-> node, generation |-> generation,
                 client_state |-> client_state, created_at |-> timestamp,
                 replaced_at |-> NULL]}

\* Mutant of UpdateGenerationNumber: the "generation < :generation"
\* condition is missing.
UpdateGenerationNumber_Unconditional(db, sid, email, generation) ==
    {IF /\ r.db = db /\ r.service = sid /\ r.email = email
        /\ r.replaced_at = NULL
     THEN [r EXCEPT !.generation = generation] ELSE r : r \in users}

\* Mutant of UpdateGenerationNumber: the "replaced_at is null" condition
\* is missing.
UpdateGenerationNumber_Replaced(db, sid, email, generation) ==
    {IF /\ r.db = db /\ r.service = sid /\ r.email = email
        /\ r.generation < generation
     THEN [r EXCEPT !.generation = generation] ELSE r : r \in users}

\* _UPDATE_GENERATION_NUMBER
UpdateGenerationNumber(db, sid, email, generation) ==
    {IF /\ r.db = db /\ r.service = sid /\ r.email = email
        /\ r.generation < generation /\ r.replaced_at = NULL
     THEN [r EXCEPT !.generation = generation] ELSE r : r \in users}

\* _REPLACE_USER_RECORDS
ReplaceUserRecords(db, sid, email, timestamp) ==
    {IF /\ r.db = db /\ r.service = sid /\ r.email = email
        /\ r.replaced_at = NULL /\ r.created_at < timestamp
     THEN [r EXCEPT !.replaced_at = timestamp] ELSE r : r \in users}

\* Mutant of RetireUserRecords: the statement reaches every database.
RetireUserRecords_EveryDb(db, email, timestamp) ==
    {IF r.email = email /\ r.replaced_at = NULL
     THEN [r EXCEPT !.replaced_at = timestamp, !.generation = BIGINT_MAX]
     ELSE r : r \in users}

\* _RETIRE_USER_RECORDS
RetireUserRecords(db, email, timestamp) ==
    {IF r.db = db /\ r.email = email /\ r.replaced_at = NULL
     THEN [r EXCEPT !.replaced_at = timestamp, !.generation = BIGINT_MAX]
     ELSE r : r \in users}

(***************************************************************************)
(* Nodes table: the query of get_best_node.                                *)
(***************************************************************************)
\* Mutant of Eligible: the "service == :service" condition is missing.
Eligible_AnyService(db, sid) ==
    {n \in nodes : /\ n.db = db /\ n.available > 0
                   /\ n.capacity > n.current_load /\ n.downed = 0}

\* Mutant of Eligible: the "available > 0" condition is missing.
Eligible_IgnoresAvailable(db, sid) ==
    {n \in nodes : /\ n.db = db /\ n.service = sid
                   /\ n.capacity > n.current_load /\ n.downed = 0}

\* Mutant of Eligible: the "downed == 0" condition is missing.
Eligible_IgnoresDowned(db, sid) ==
    {n \in nodes : /\ n.db = db /\ n.service = sid /\ n.available > 0
                   /\ n.capacity > n.current_load}

\* Mutant of Eligible: the "capacity > current_load" condition is missing.
Eligible_IgnoresCapacity(db, sid) ==
    {n \in nodes : /\ n.db = db /\ n.service = sid /\ n.available > 0
                   /\ n.downed = 0}

\* The where clause of get_best_node.
Eligible(db, sid) ==
    {n \in nodes : /\ n.db = db /\ n.service = sid /\ n.available > 0
                   /\ n.capacity > n.current_load /\ n.downed = 0}

\* sqlite: order by current_load * 1.0 / capacity.
RatioLess(a, b) ==
    a.current_load * b.capacity < b.current_load * a.capacity

\* log(l1)/log(c1) < log(l2)/log(c2) for l1, l2 >= 1 and c1, c2 >= 2:
\* some p/q lies in between (exact while 1/q separates the two keys).
LogLess(l1, c1, l2, c2) ==
    \E p \in 1..LogDepth, q \in 1..LogDepth :
        Pow(l1, q) < Pow(c1, p) /\ Pow(c2, p) <= Pow(l2, q)

\* MySQL: log(x) is NULL for x <= 0 and x / 0 is NULL.
LogKeyIsNull(n) == n.current_load <= 0 \/ n.capacity <= 1

\* other backends: order by log(current_load) / log(capacity); NULL keys
\* sort first.
LogRatioLess(a, b) ==
    \/ LogKeyIsNull(a) /\ ~LogKeyIsNull(b)
    \/ /\ ~LogKeyIsNull(a) /\ ~LogKeyIsNull(b)
       /\ LogLess(a.current_load, a.capacity, b.current_load, b.capacity)

OrderedBefore(a, b) ==
    IF is_sqlite THEN RatioLess(a, b) ELSE LogRatioLess(a, b)

\* The rows "order by ... limit 1" may return: ties are broken arbitrarily.
FirstRows(E) == {n \in E : \A m \in E : ~OrderedBefore(m, n)}

\* update nodes set available = available - 1,
\*                  current_load = current_load + 1
CountersUpdated(rows, db, sid, node) ==
    {IF n.db = db /\ n.service = sid /\ n.node = node
     THEN [n EXCEPT !.available = @ - 1, !.current_load = @ + 1]
     ELSE n : n \in rows}

\* Mutant of UpdateNodeCounters: the update is keyed by the node URI alone.
UpdateNodeCounters_AnyService(db, sid, node) ==
    {IF n.db = db /\ n.node = node
     THEN [n EXCEPT !.available = @ - 1, !.current_load = @ + 1]
     ELSE n : n \in nodes}

UpdateNodeCounters(db, sid, node) == CountersUpdated(nodes, db, sid, node)

(***************************************************************************)
(* The callers.  pc[p] names the statement caller p executes next.         *)
(***************************************************************************)
NoEngine == <<>>       \* engine=None

IdleLoc ==
    [op |-> "", service |-> <<>>, email |-> "", generation |-> 0,
     client_state |-> 0, timestamp |-> 0, node |-> "", engine |-> NoEngine,
     rows |-> <<>>]

\* The call of p ends: with the exception e, or normally ("").
Return(p, e) ==
    /\ pc' = [pc EXCEPT ![p] = "idle"]
    /\ loc' = [loc EXCEPT ![p] = IdleLoc]
    /\ err' = [err EXCEPT ![p] = e]

\* Calls that have not executed their insert yet.
InsertPending ==
    {p \in Procs : pc[p] \in {"gbn_update", "cu_timestamp", "cu_insert",
                              "uu_insert"} /\ loc[p].op # "get_best_node"}

\* Room for one more user row under the bound.
Room(bound) == Cardinality(users) + Cardinality(InsertPending) < bound

\* get_timestamp() advances.
Tick ==
    /\ clock < MaxClock
    /\ clock' = clock + 1
    /\ UNCHANGED <<config, services, cache, nodes, users, lastuid,
                   pc, user, loc, err, name>>

\* SQLMetadata.get_user
get_user(p, service, email) ==
    /\ pc[p] = "idle"
    /\ IF KnownService(service)
       THEN /\ cache' = CacheWith(service)
            /\ user' = [user EXCEPT ![p] =
                   GetUserResult(get_engine(service),
                                 get_service_id(service), email)]
            /\ err' = [err EXCEPT ![p] = ""]
       ELSE /\ err' = [err EXCEPT ![p] = "unknown service"]
            /\ UNCHANGED <<cache, user>>
    /\ UNCHANGED <<config, services, nodes, users, lastuid, clock,
                   pc, loc, name>>

\* get_best_node up to its select: resolve the service, run the query,
\* raise when it returns no row.  op is the method that runs it
\* (get_best_node itself, or create_user, whose arguments l carries).
SelectBestNode(p, l) ==
    /\ pc[p] = "idle"
    /\ IF ~KnownService(l.service)
       THEN /\ err' = [err EXCEPT ![p] = "unknown service"]
            /\ UNCHANGED <<cache, pc, loc>>
       ELSE LET E == Eligible(get_engine(l.service),
                              get_service_id(l.service))
            IN  /\ cache' = CacheWith(l.service)
                /\ IF E = {}
                   THEN /\ err' = [err EXCEPT ![p] = "unable to get a node"]
                        /\ UNCHANGED <<pc, loc>>
                   ELSE \E one \in FirstRows(E) :
                          /\ pc' = [pc EXCEPT ![p] = "gbn_update"]
                          /\ loc' = [loc EXCEPT ![p] =
                                        [l EXCEPT !.node = one.node]]
                          /\ err' = [err EXCEPT ![p] = ""]
    /\ UNCHANGED <<config, services, nodes, users, lastuid, clock,
                   user, name>>

\* SQLMetadata.get_best_node, called directly.
get_best_node(p, service) ==
    SelectBestNode(p, [IdleLoc EXCEPT !.op = "get_best_node",
                                      !.service = service])

\* SQLMetadata.create_user: its first statement is get_best_node's select.
create_user(p, service, email, generation, client_state) ==
    SelectBestNode(p, [IdleLoc EXCEPT !.op = "create_user",
                                      !.service = service,
                                      !.email = email,
                                      !.generation = generation,
                                      !.client_state = client_state])

\* Mutant of get_best_node_update: the counters are written as absolute
\* values computed from the selected row, so the write of a caller is
\* overwritten by a concurrent caller that selected the same row.
get_best_node_update_Overwritten(p) ==
    /\ pc[p] = "gbn_update"
    /\ nodes' = IF \E q \in Procs \ {p} :
                       /\ pc[q] = "gbn_update"
                       /\ loc[q].service = loc[p].service
                       /\ loc[q].node = loc[p].node
                THEN nodes
                ELSE UpdateNodeCounters(get_engine(loc[p].service),
                                        get_service_id(loc[p].service),
                                        loc[p].node)
    /\ IF loc[p].op = "create_user"
       THEN /\ pc' = [pc EXCEPT ![p] = "cu_timestamp"]
            /\ UNCHANGED <<loc, err>>
       ELSE Return(p, "")
    /\ UNCHANGED <<config, services, cache, users, lastuid, clock,
                   user, name>>

\* get_best_node: the update of the counters of the selected node.
get_best_node_update(p) ==
    /\ pc[p] = "gbn_update"
    /\ nodes' = UpdateNodeCounters(get_engine(loc[p].service),
                                   get_service_id(loc[p].service),
                                   loc[p].node)
    /\ IF loc[p].op = "create_user"
       THEN /\ pc' = [pc EXCEPT ![p] = "cu_timestamp"]
            /\ UNCHANGED <<loc, err>>
       ELSE Return(p, "")
    /\ UNCHANGED <<config, services, cache, users, lastuid, clock,
                   user, name>>

\* create_user: 'timestamp': get_timestamp()
create_user_timestamp(p) ==
    /\ pc[p] = "cu_timestamp"
    /\ pc' = [pc EXCEPT ![p] = "cu_insert"]
    /\ loc' = [loc EXCEPT ![p].timestamp = clock]
    /\ UNCHANGED <<config, services, cache, nodes, users, lastuid, clock,
                   user, err, name>>

\* create_user: the insert, and the dict returned when it succeeds.
create_user_insert(p) ==
    LET l == loc[p]
        db == get_engine(l.service)
        sid == get_service_id(l.service)
    IN  /\ pc[p] = "cu_insert"
        /\ IF UniqueViolation(db, sid, l.email, l.client_state)
           THEN /\ pc' = [pc EXCEPT ![p] = "cu_integrity"]
                /\ UNCHANGED <<users, lastuid, user, loc, err>>
           ELSE /\ users' = CreateUserRecord(db, sid, l.email, l.node,
                                l.generation, l.client_state, l.timestamp)
                /\ lastuid' = [lastuid EXCEPT ![db] = NewUid(db)]
                /\ user' = [user EXCEPT ![p] =
                       [email |-> l.email, uid |-> NewUid(db),
                        node |-> l.node, generation |-> l.generation,
                        client_state |-> l.client_state,
                        old_client_states |-> {}]]
                /\ Return(p, "")
        /\ UNCHANGED <<config, services, cache, nodes, clock, name>>

\* Mutant of create_user_IntegrityError: the loser keeps the node it
\* allocated itself instead of the one of the stored record.
create_user_IntegrityError_OwnNode(p) ==
    LET l == loc[p]
    IN  /\ pc[p] = "cu_integrity"
        /\ user' = [user EXCEPT ![p] =
               [GetUserResult(get_engine(l.service),
                              get_service_id(l.service), l.email)
                   EXCEPT !.node = l.node]]
        /\ Return(p, "")
        /\ UNCHANGED <<config, services, cache, nodes, users, lastuid,
                       clock, name>>

\* create_user: except IntegrityError: return self.get_user(service, email)
create_user_IntegrityError(p) ==
    LET l == loc[p]
    IN  /\ pc[p] = "cu_integrity"
        /\ user' = [user EXCEPT ![p] =
               GetUserResult(get_engine(l.service),
                             get_service_id(l.service), l.email)]
        /\ Return(p, "")
        /\ UNCHANGED <<config, services, cache, nodes, users, lastuid,
                       clock, name>>

\* Mutant of update_user_generation: the dict takes the given generation
\* as it is.
update_user_generation_AsGiven(p, service, generation) ==
    /\ pc[p] = "idle"
    /\ user[p] # NoneUser
    /\ IF generation = None
       THEN /\ err' = [err EXCEPT ![p] = ""]
            /\ UNCHANGED <<cache, users, user>>
       ELSE IF ~KnownService(service)
       THEN /\ err' = [err EXCEPT ![p] = "unknown service"]
            /\ UNCHANGED <<cache, users, user>>
       ELSE /\ cache' = CacheWith(service)
            /\ users' = UpdateGenerationNumber(get_engine(service),
                            get_service_id(service), user[p].email,
                            generation)
            /\ user' = [user EXCEPT ![p].generation = generation]
            /\ err' = [err EXCEPT ![p] = ""]
    /\ UNCHANGED <<config, services, nodes, lastuid, clock, pc, loc, name>>

\* update_user with client_state=None: _UPDATE_GENERATION_NUMBER, then
\* user['generation'] = max(generation, user['generation']).
update_user_generation(p, service, generation) ==
    /\ pc[p] = "idle"
    /\ user[p] # NoneUser
    /\ IF generation = None
       THEN /\ err' = [err EXCEPT ![p] = ""]
            /\ UNCHANGED <<cache, users, user>>
       ELSE IF ~KnownService(service)
       THEN /\ err' = [err EXCEPT ![p] = "unknown service"]
            /\ UNCHANGED <<cache, users, user>>
       ELSE /\ cache' = CacheWith(service)
            /\ users' = UpdateGenerationNumber(get_engine(service),
                            get_service_id(service), user[p].email,
                            generation)
            /\ user' = [user EXCEPT ![p].generation = Max(generation, @)]
            /\ err' = [err EXCEPT ![p] = ""]
    /\ UNCHANGED <<config, services, nodes, lastuid, clock, pc, loc, name>>

\* Mutant of RotationGeneration: a given generation is taken as it is.
RotationGeneration_AsGiven(u, generation) ==
    IF generation # None THEN generation ELSE u.generation

\* The generation of the record a rotation inserts (lines 269-272).
RotationGeneration(u, generation) ==
    IF generation # None THEN Max(u.generation, generation)
    ELSE u.generation

\* Mutant of PreviouslySeen: only the active client state is rejected.
PreviouslySeen_OnlyCurrent(u, client_state) ==
    client_state = u.client_state

\* The check that rejects previously-seen client-state strings.
PreviouslySeen(u, client_state) ==
    client_state = u.client_state \/ client_state \in u.old_client_states

\* Mutant of update_user_client_state: a rejected value is recorded in the
\* caller's dict.
update_user_client_state_Records(p, service, generation, client_state) ==
    /\ pc[p] = "idle"
    /\ user[p] # NoneUser
    /\ IF PreviouslySeen(user[p], client_state)
       THEN /\ err' = [err EXCEPT ![p] =
                          "previously seen client-state string"]
            /\ user' = [user EXCEPT ![p].old_client_states =
                                        @ \cup {client_state}]
            /\ UNCHANGED <<pc, loc>>
       ELSE /\ pc' = [pc EXCEPT ![p] = "uu_insert"]
            /\ loc' = [loc EXCEPT ![p] =
                   [IdleLoc EXCEPT !.op = "update_user",
                       !.service = service,
                       !.email = user[p].email,
                       !.node = user[p].node,
                       !.generation = RotationGeneration(user[p], generation),
                       !.client_state = client_state,
                       !.timestamp = clock]]
            /\ err' = [err EXCEPT ![p] = ""]
            /\ UNCHANGED user
    /\ UNCHANGED <<config, services, cache, nodes, users, lastuid, clock,
                   name>>

\* update_user with a client_state: the checks, the generation of the new
\* record and now = get_timestamp().
update_user_client_state(p, service, generation, client_state) ==
    /\ pc[p] = "idle"
    /\ user[p] # NoneUser
    /\ IF PreviouslySeen(user[p], client_state)
       THEN /\ err' = [err EXCEPT ![p] =
                          "previously seen client-state string"]
            /\ UNCHANGED <<pc, loc>>
       ELSE /\ pc' = [pc EXCEPT ![p] = "uu_insert"]
            /\ loc' = [loc EXCEPT ![p] =
                   [IdleLoc EXCEPT !.op = "update_user",
                       !.service = service,
                       !.email = user[p].email,
                       !.node = user[p].node,
                       !.generation = RotationGeneration(user[p], generation),
                       !.client_state = client_state,
                       !.timestamp = clock]]
            /\ err' = [err EXCEPT ![p] = ""]
    /\ UNCHANGED <<config, services, cache, nodes, users, lastuid, clock,
                   user, name>>

\* Mutant of RotatedUser: the replaced client state is not remembered.
RotatedUser_ForgetsOld(u, uid, generation, client_state) ==
    [u EXCEPT !.uid = uid, !.generation = generation,
              !.client_state = client_state]

\* The caller's dict after a successful insert (lines 285-288).
RotatedUser(u, uid, generation, client_state) ==
    [u EXCEPT !.uid = uid, !.generation = generation,
              !.old_client_states = @ \cup {u.client_state},
              !.client_state = client_state]

\* update_user: the insert of the new record.  The get_user of line 284
\* only reads, and its result is dropped.
update_user_insert(p) ==
    LET l == loc[p]
        db == get_engine(l.service)
        sid == get_service_id(l.service)
    IN  /\ pc[p] = "uu_insert"
        /\ IF ~KnownService(l.service)
           THEN /\ Return(p, "unknown service")
                /\ UNCHANGED <<cache, users, lastuid, user>>
           ELSE IF UniqueViolation(db, sid, l.email, l.client_state)
           THEN /\ cache' = CacheWith(l.service)
                /\ pc' = [pc EXCEPT ![p] = "uu_integrity"]
                /\ UNCHANGED <<users, lastuid, user, loc, err>>
           ELSE /\ cache' = CacheWith(l.service)
                /\ users' = CreateUserRecord(db, sid, l.email, l.node,
                                l.generation, l.client_state, l.timestamp)
                /\ lastuid' = [lastuid EXCEPT ![db] = NewUid(db)]
                /\ user' = [user EXCEPT ![p] =
                       RotatedUser(@, NewUid(db), l.generation,
                                   l.client_state)]
                /\ pc' = [pc EXCEPT ![p] = "uu_replace"]
                /\ UNCHANGED <<loc, err>>
        /\ UNCHANGED <<config, services, nodes, clock, name>>

\* update_user: except IntegrityError:
\*     user.update(self.get_user(service, user['email']))
\* (dict.update(None) raises TypeError).
update_user_IntegrityError(p) ==
    LET l == loc[p]
        got == GetUserResult(get_engine(l.service),
                             get_service_id(l.service), l.email)
    IN  /\ pc[p] = "uu_integrity"
        /\ IF got = NoneUser
           THEN /\ Return(p, "TypeError")
                /\ UNCHANGED user
           ELSE /\ user' = [user EXCEPT ![p] = got]
                /\ pc' = [pc EXCEPT ![p] = "uu_replace"]
                /\ UNCHANGED <<loc, err>>
        /\ UNCHANGED <<config, services, cache, nodes, users, lastuid,
                       clock, name>>

\* update_user: mark old records as having been replaced.
update_user_replace(p) ==
    LET l == loc[p]
    IN  /\ pc[p] = "uu_replace"
        /\ users' = ReplaceUserRecords(get_engine(l.service),
                        get_service_id(l.service), user[p].email,
                        l.timestamp)
        /\ Return(p, "")
        /\ UNCHANGED <<config, services, cache, nodes, lastuid, clock,
                       user, name>>

\* retire_user: now = get_timestamp()
retire_user(p, email, engine) ==
    /\ pc[p] = "idle"
    /\ pc' = [pc EXCEPT ![p] = "ru_execute"]
    /\ loc' = [loc EXCEPT ![p] =
           [IdleLoc EXCEPT !.op = "retire_user", !.email = email,
                           !.engine = engine, !.timestamp = clock]]
    /\ UNCHANGED <<config, services, cache, nodes, users, lastuid, clock,
                   user, err, name>>

\* retire_user: _safe_execute(_RETIRE_USER_RECORDS, engine=engine, ...).
\* Without an engine _safe_execute asks _get_engine(None), which the
\* sharded class does not implement.
retire_user_execute(p) ==
    LET l == loc[p]
    IN  /\ pc[p] = "ru_execute"
        /\ IF l.engine = NoEngine /\ sharded
           THEN /\ Return(p, "NotImplementedError")
                /\ UNCHANGED users
           ELSE /\ users' = RetireUserRecords(
                       IF l.engine = NoEngine THEN MAIN_DB ELSE l.engine,
                       l.email, l.timestamp)
                /\ Return(p, "")
        /\ UNCHANGED <<config, services, cache, nodes, lastuid, clock,
                       user, name>>

\* grace_period = 60 * 60 * 24 * 7 (one week), in milliseconds.
ONE_WEEK_MILLIS == 604800000

\* get_old_user_records: the grace period in milliseconds.  millis is the
\* argument grace_period (seconds, possibly fractional) times 1000.
GraceMillis(millis) == IF millis < 0 THEN ONE_WEEK_MILLIS ELSE millis

\* Mutant of OldUserRecords: "replaced_at <= :timestamp".
OldUserRecords_Inclusive(db, sid, timestamp) ==
    {r \in users : /\ r.db = db /\ r.service = sid
                   /\ r.replaced_at # NULL /\ r.replaced_at <= timestamp}

\* The where clause of _GET_OLD_USER_RECORDS_FOR_SERVICE.
OldUserRecords(db, sid, timestamp) ==
    {r \in users : /\ r.db = db /\ r.service = sid
                   /\ r.replaced_at # NULL /\ r.replaced_at < timestamp}

\* "order by replaced_at desc, uid desc": a sorts before b.
ReplacedBefore(a, b) ==
    \/ a.replaced_at > b.replaced_at
    \/ a.replaced_at = b.replaced_at /\ a.uid > b.uid

\* The rows (uid, node) of _GET_OLD_USER_RECORDS_FOR_SERVICE, in order,
\* cut at :limit.
OldUserRows(db, sid, timestamp, limit) ==
    LET S == OldUserRecords(db, sid, timestamp)
        n == IF Cardinality(S) < limit THEN Cardinality(S) ELSE limit
        at(i) == CHOOSE r \in S :
                     Cardinality({x \in S : ReplacedBefore(x, r)}) = i - 1
    IN  [i \in 1..n |-> [uid |-> at(i).uid, node |-> at(i).node]]

\* SQLMetadata.get_old_user_records, read to its end by the caller.
get_old_user_records(p, service, millis, limit) ==
    /\ pc[p] = "idle"
    /\ IF KnownService(service)
       THEN /\ cache' = CacheWith(service)
            /\ loc' = [loc EXCEPT ![p] =
                   [IdleLoc EXCEPT !.op = "get_old_user_records",
                       !.service = service,
                       !.timestamp = clock - GraceMillis(millis),
                       !.rows = OldUserRows(get_engine(service),
                                    get_service_id(service),
                                    clock - GraceMillis(millis), limit)]]
            /\ err' = [err EXCEPT ![p] = ""]
       ELSE /\ err' = [err EXCEPT ![p] = "unknown service"]
            /\ UNCHANGED <<cache, loc>>
    /\ UNCHANGED <<config, services, nodes, users, lastuid, clock,
                   pc, user, name>>

\* Mutant of delete_user_record: the service name is not resolved, the
\* record is deleted by uid alone.
delete_user_record_AnyService(p, service, uid) ==
    /\ pc[p] = "idle"
    /\ users' = {r \in users : r.uid # uid}
    /\ err' = [err EXCEPT ![p] = ""]
    /\ UNCHANGED <<config, services, cache, nodes, lastuid, clock,
                   pc, user, loc, name>>

\* Mutant of delete_user_record: the slot of the deleted record is given
\* back to its node.
delete_user_record_FreesSlot(p, service, uid) ==
    /\ pc[p] = "idle"
    /\ IF KnownService(service)
       THEN LET gone == {r \in users :
                            /\ r.db = get_engine(service)
                            /\ r.service = get_service_id(service)
                            /\ r.uid = uid}
            IN  /\ cache' = CacheWith(service)
                /\ users' = users \ gone
                /\ nodes' = {IF \E r \in gone : /\ r.db = n.db
                                                /\ r.service = n.service
                                                /\ r.node = n.node
                             THEN [n EXCEPT !.available = @ + 1,
                                            !.current_load = @ - 1]
                             ELSE n : n \in nodes}
                /\ err' = [err EXCEPT ![p] = ""]
       ELSE /\ err' = [err EXCEPT ![p] = "unknown service"]
            /\ UNCHANGED <<cache, users, nodes>>
    /\ UNCHANGED <<config, services, lastuid, clock, pc, user, loc, name>>

\* SQLMetadata.delete_user_record
delete_user_record(p, service, uid) ==
    /\ pc[p] = "idle"
    /\ IF KnownService(service)
       THEN /\ cache' = CacheWith(service)
            /\ users' = {r \in users :
                            ~(/\ r.db = get_engine(service)
                              /\ r.service = get_service_id(service)
                              /\ r.uid = uid)}
            /\ err' = [err EXCEPT ![p] = ""]
       ELSE /\ err' = [err EXCEPT ![p] = "unknown service"]
            /\ UNCHANGED <<cache, users>>
    /\ UNCHANGED <<config, services, nodes, lastuid, clock,
                   pc, user, loc, name>>

\* select([table]) on one database: its rows (id, service), by id.
ServiceRows(db) ==
    LET S == {r \in services : r.db = db}
        at(i) == CHOOSE r \in S :
                     Cardinality({x \in S : x.id < r.id}) = i - 1
    IN  [i \in 1..Cardinality(S) |->
            [id |-> at(i).id, service |-> at(i).service]]

\* if row not in patterns: patterns.append(row), for the rows in turn.
RECURSIVE AppendNew(_, _)
AppendNew(patterns, rows) ==
    IF rows = <<>> THEN patterns
    ELSE AppendNew(IF \E i \in DOMAIN patterns : patterns[i] = Head(rows)
                   THEN patterns ELSE Append(patterns, Head(rows)),
                   Tail(rows))

\* self._cached_service_ids[row.service] = row.id, for the rows in turn.
RECURSIVE CachePut(_, _)
CachePut(c, rows) ==
    IF rows = <<>> THEN c
    ELSE CachePut({x \in c : x[1] # Head(rows).service}
                      \cup {<<Head(rows).service, Head(rows).id>>},
                  Tail(rows))

\* Mutant of ShardAnswer: the rows of a failing shard are read anyway.
ShardAnswer_ReadsAll(db, failing, acc) ==
    [rows |-> AppendNew(acc.rows, ServiceRows(db)),
     cache |-> CachePut(acc.cache, ServiceRows(db))]

\* One round of the loop of ShardedSQLMetadata.get_patterns: the select
\* raises BackendError on the databases in failing, which are skipped;
\* the rows of the others are cached and merged.
ShardAnswer(db, failing, acc) ==
    IF db \in failing THEN acc
    ELSE [rows |-> AppendNew(acc.rows, ServiceRows(db)),
          cache |-> CachePut(acc.cache, ServiceRows(db))]

\* ShardedSQLMetadata.get_patterns: the loop over self._dbs.items(), in the
\* order the dict yields them.
RECURSIVE PatternsLoop(_, _, _)
PatternsLoop(order, failing, acc) ==
    IF order = <<>> THEN acc
    ELSE PatternsLoop(Tail(order), failing,
                      ShardAnswer(Head(order), failing, acc))

\* get_patterns of the sharded class.
get_patterns(p, order, failing) ==
    LET res == PatternsLoop(order, failing, [rows |-> <<>>, cache |-> cache])
    IN  /\ pc[p] = "idle"
        /\ sharded
        /\ cache' = res.cache
        /\ loc' = [loc EXCEPT ![p] =
               [IdleLoc EXCEPT !.op = "get_patterns", !.rows = res.rows]]
        /\ err' = [err EXCEPT ![p] = ""]
        /\ UNCHANGED <<config, services, nodes, users, lastuid, clock,
                       pc, user, name>>

\* ShardedSQLMetadata._get_engine(service), asked for the service `name`:
\* the key it looks up in self._dbs.
get_engine_call(p) ==
    /\ pc[p] = "idle"
    /\ loc[p].op = ""
    /\ loc' = [loc EXCEPT ![p] =
           [IdleLoc EXCEPT !.op = "_get_engine", !.service = name,
                           !.engine = get_engine(name)]]
    /\ UNCHANGED <<config, services, cache, nodes, users, lastuid, clock,
                   pc, user, err, name>>

(***************************************************************************)
(* Initial states: the store as the tests' setUp leaves it (services       *)
(* registered, nodes added, no user yet).                                  *)
(***************************************************************************)
Emails == {"e1", "e2"}
Gens == 0..MaxGen
ClientStates == 0..2

AllDbs == {MAIN_DB, dbkey(SYNC_1_0), dbkey(QUEUEY_1_0)}

\* add_service: the rows of the services table(s), ids by autoincrement.
ServicesTable(shardedv) ==
    IF shardedv
    THEN {[db |-> dbkey(SYNC_1_0), id |-> 1, service |-> SYNC_1_0],
          [db |-> dbkey(SYNC_1_5), id |-> 2, service |-> SYNC_1_5],
          [db |-> dbkey(QUEUEY_1_0), id |-> 1, service |-> QUEUEY_1_0]}
    ELSE {[db |-> MAIN_DB, id |-> 1, service |-> SYNC_1_0],
          [db |-> MAIN_DB, id |-> 2, service |-> SYNC_1_5],
          [db |-> MAIN_DB, id |-> 3, service |-> QUEUEY_1_0]}

\* add_node(service, node, capacity, **kwds): the row it inserts.
NodeRow(db, sid, node, capacity, available, current_load, downed) ==
    [db |-> db, service |-> sid, node |-> node, available |-> available,
     capacity |-> capacity, current_load |-> current_load,
     downed |-> downed, backoff |-> 0]

\* Two empty nodes for sync-1.0 and one for sync-1.5, unsharded.
DefaultNodes ==
    {NodeRow(MAIN_DB, 1, "n1", MaxLoad, MaxLoad, 0, 0),
     NodeRow(MAIN_DB, 1, "n2", MaxLoad, MaxLoad, 0, 0),
     NodeRow(MAIN_DB, 2, "n1", MaxLoad, MaxLoad, 0, 0)}

InitCallers ==
    /\ pc = [p \in Procs |-> "idle"]
    /\ user = [p \in Procs |-> NoneUser]
    /\ loc = [p \in Procs |-> IdleLoc]
    /\ err = [p \in Procs |-> ""]

Init ==
    /\ sharded = FALSE
    /\ is_sqlite = TRUE
    /\ services = ServicesTable(FALSE)
    /\ cache = {}
    /\ nodes = DefaultNodes
    /\ users = {}
    /\ lastuid = [d \in AllDbs |-> 0]
    /\ clock = 0
    /\ InitCallers
    /\ name = <<>>

(***************************************************************************)
(* SpecChain: one caller rotates the client state of one identity whose    *)
(* history is already RECORD_LIMIT - 1 records long: create_user at 0 ms   *)
(* and one rotation per millisecond since, each to a fresh client state.   *)
(***************************************************************************)
\* The rows create_user and n - 1 such rotations leave.
ChainRows(n) ==
    {[db |-> MAIN_DB, uid |-> i, service |-> 1, email |-> "e1",
      node |-> "n1", generation |-> 0, client_state |-> i - 1,
      created_at |-> i - 1,
      replaced_at |-> IF i < n THEN i ELSE NULL] : i \in 1..n}

ChainStart == RECORD_LIMIT - 1

InitChain ==
    /\ sharded = FALSE
    /\ is_sqlite = TRUE
    /\ services = ServicesTable(FALSE)
    /\ cache = {}
    /\ nodes = CountersUpdated(DefaultNodes, MAIN_DB, 1, "n1")
    /\ users = ChainRows(ChainStart)
    /\ lastuid = [d \in AllDbs |-> IF d = MAIN_DB THEN ChainStart ELSE 0]
    /\ clock = ChainStart - 1
    /\ InitCallers
    /\ name = <<>>

\* The client states used so far, and the next unused one.
UsedStates == {r.client_state : r \in users}
FreshState == Cardinality(UsedStates)

TickChain ==
    /\ clock < ChainStart - 1 + MaxClock
    /\ clock' = clock + 1
    /\ UNCHANGED <<config, services, cache, nodes, users, lastuid,
                   pc, user, loc, err, name>>

NextChain ==
    \/ TickChain
    \/ get_user(1, SYNC_1_0, "e1")
    \/ \E g \in {None, 1}, c \in UsedStates \cup {FreshState} :
           /\ Room(RECORD_LIMIT + MaxExtra)
           /\ update_user_client_state(1, SYNC_1_0, g, c)
    \/ update_user_insert(1)
    \/ update_user_IntegrityError(1)
    \/ update_user_replace(1)

SpecChain == InitChain /\ [][NextChain]_vars

(***************************************************************************)
(* SpecGen: one caller creates identities (when get_user finds none) and   *)
(* then only bumps generations.                                            *)
(***************************************************************************)
SyncServices == {SYNC_1_0, SYNC_1_5}

\* The caller creates a user only when the identity has no record yet.
NoRecord(service, email) ==
    UserRecords(get_engine(service), get_service_id(service), email) = {}

NextGen ==
    \/ Tick
    \/ \E s \in SyncServices : get_user(1, s, "e1")
    \/ \E s \in SyncServices :
           /\ Room(MaxRows) /\ NoRecord(s, "e1")
           /\ create_user(1, s, "e1", 0, 0)
    \/ get_best_node_update(1)
    \/ create_user_timestamp(1)
    \/ create_user_insert(1)
    \/ \E s \in SyncServices, g \in Gens \cup {None} :
           update_user_generation(1, s, g)

SpecGen == Init /\ [][NextGen]_vars

(***************************************************************************)
(* SpecConc: two callers update one identity that create_user has already  *)
(* stored; each works from the dict its last get_user returned.            *)
(***************************************************************************)
\* The store after create_user(SYNC_1_0, "e1") at time 0.
CreatedRows ==
    {[db |-> MAIN_DB, uid |-> 1, service |-> 1, email |-> "e1",
      node |-> "n1", generation |-> 0, client_state |-> 0,
      created_at |-> 0, replaced_at |-> NULL]}

InitCreated ==
    /\ sharded = FALSE
    /\ is_sqlite = TRUE
    /\ services = ServicesTable(FALSE)
    /\ cache = {<<SYNC_1_0, 1>>}
    /\ nodes = CountersUpdated(DefaultNodes, MAIN_DB, 1, "n1")
    /\ users = CreatedRows
    /\ lastuid = [db \in AllDbs |-> IF db = MAIN_DB THEN 1 ELSE 0]
    /\ clock = 0
    /\ name = <<>>
    /\ InitCallers

NextConc ==
    \/ Tick
    \/ \E p \in Procs : get_user(p, SYNC_1_0, "e1")
    \/ \E p \in Procs, g \in Gens : update_user_generation(p, SYNC_1_0, g)
    \/ \E p \in Procs, c \in 1..2 :
           /\ Room(MaxRows)
           /\ update_user_client_state(p, SYNC_1_0, None, c)
    \/ \E p \in Procs : update_user_insert(p)
    \/ \E p \in Procs : update_user_IntegrityError(p)
    \/ \E p \in Procs : update_user_replace(p)

SpecConc == InitCreated /\ [][NextConc]_vars

(***************************************************************************)
(* SpecCreate: two callers each run create_user once for the identity      *)
(* "e1" of sync-1.0, which has no record yet.                              *)
(***************************************************************************)
\* Caller p has not called create_user yet.
NotCalled(p) == user[p] = NoneUser /\ err[p] = ""

NextCreate ==
    \/ Tick
    \/ \E p \in Procs, c \in 0..1 :
           /\ NotCalled(p)
           /\ create_user(p, SYNC_1_0, "e1", 0, c)
    \/ \E p \in Procs : get_best_node_update(p)
    \/ \E p \in Procs : create_user_timestamp(p)
    \/ \E p \in Procs : create_user_insert(p)
    \/ \E p \in Procs : create_user_IntegrityError(p)

SpecCreate == Init /\ [][NextCreate]_vars

(***************************************************************************)
(* SpecNodes: one caller allocates nodes; add_node(service, node,          *)
(* capacity, **kwds) has stored two nodes for sync-1.0 with any counters   *)
(* and one empty node for sync-1.5, on either kind of backend.             *)
(***************************************************************************)
Capacities == 1..MaxLoad
Loads == 0..MaxLoad
Availables == {0, MaxLoad}
Downeds == {0, 1}

NodeTables ==
    {{NodeRow(MAIN_DB, 1, "n1", c1, a1, l1, d1),
      NodeRow(MAIN_DB, 1, "n2", c2, MaxLoad, l2, d2),
      NodeRow(MAIN_DB, 2, "n3", 1, 1, 0, 0)} :
        c1 \in Capacities, c2 \in Capacities, l1 \in Loads, l2 \in Loads,
        a1 \in Availables, d1 \in Downeds, d2 \in Downeds}

InitNodes ==
    /\ sharded = FALSE
    /\ is_sqlite \in BOOLEAN
    /\ services = ServicesTable(FALSE)
    /\ cache = {}
    /\ nodes \in NodeTables
    /\ users = {}
    /\ lastuid = [db \in AllDbs |-> 0]
    /\ clock = 0
    /\ name = <<>>
    /\ InitCallers

NextNodes ==
    \/ \E s \in SyncServices : get_best_node(1, s)
    \/ get_best_node_update(1)
    \/ /\ NoRecord(SYNC_1_0, "e1")
       /\ create_user(1, SYNC_1_0, "e1", 0, 0)
    \/ create_user_timestamp(1)
    \/ create_user_insert(1)

SpecNodes == InitNodes /\ [][NextNodes]_vars

(***************************************************************************)
(* SpecSeq: one caller works on the identity "e1" of sync-1.0 with         *)
(* completed, non-overlapping create_user and rotating update_user calls.  *)
(***************************************************************************)
NextSeq ==
    \/ Tick
    \/ get_user(1, SYNC_1_0, "e1")
    \/ /\ Room(MaxRows) /\ NoRecord(SYNC_1_0, "e1")
       /\ create_user(1, SYNC_1_0, "e1", 0, 0)
    \/ get_best_node_update(1)
    \/ create_user_timestamp(1)
    \/ create_user_insert(1)
    \/ \E g \in {None, MaxGen}, c \in ClientStates :
           /\ Room(MaxRows)
           /\ update_user_client_state(1, SYNC_1_0, g, c)
    \/ update_user_insert(1)
    \/ update_user_replace(1)

SpecSeq == Init /\ [][NextSeq]_vars

(***************************************************************************)
(* SpecRetire: one caller creates, updates and retires the identity "e1",  *)
(* which may have records in sync-1.0 and sync-1.5.                        *)
(***************************************************************************)
NextRetire ==
    \/ Tick
    \/ \E s \in SyncServices : get_user(1, s, "e1")
    \/ \E s \in SyncServices :
           /\ Room(MaxRows) /\ NoRecord(s, "e1")
           /\ create_user(1, s, "e1", 0, 0)
    \/ get_best_node_update(1)
    \/ create_user_timestamp(1)
    \/ create_user_insert(1)
    \/ \E s \in SyncServices : update_user_generation(1, s, MaxGen)
    \/ \E s \in SyncServices :
           /\ Room(MaxRows)
           /\ update_user_client_state(1, s, None, 1)
    \/ update_user_insert(1)
    \/ update_user_IntegrityError(1)
    \/ update_user_replace(1)
    \/ retire_user(1, "e1", NoEngine)
    \/ retire_user_execute(1)

SpecRetire == Init /\ [][NextRetire]_vars

(***************************************************************************)
(* SpecShard: ShardedSQLMetadata with the databases 'sync' and 'queuey';   *)
(* add_node has stored a node under sync-1.0, possibly one under sync-1.5, *)
(* and one under queuey-1.0.                                               *)
(***************************************************************************)
AllServices == {SYNC_1_0, SYNC_1_5, QUEUEY_1_0}

ShardNodeTables ==
    {{NodeRow(dbkey(SYNC_1_0), 1, "n1", c1, c1, 0, 0),
      NodeRow(dbkey(QUEUEY_1_0), 1, "n3", 1, 1, 0, 0)} \cup extra :
        c1 \in Capacities,
        extra \in {{}} \cup {{NodeRow(dbkey(SYNC_1_5), 2, "n2", c2, c2, 0, 0)} :
                                 c2 \in Capacities}}

InitShard ==
    /\ sharded = TRUE
    /\ is_sqlite = TRUE
    /\ services = ServicesTable(TRUE)
    /\ cache = {}
    /\ nodes \in ShardNodeTables
    /\ users = {}
    /\ lastuid = [db \in AllDbs |-> 0]
    /\ clock = 0
    /\ name = <<>>
    /\ InitCallers

NextShard ==
    \/ \E s \in AllServices : get_user(1, s, "e1")
    \/ \E s \in AllServices : get_best_node(1, s)
    \/ get_best_node_update(1)
    \/ \E s \in AllServices :
           /\ Room(MaxRows) /\ NoRecord(s, "e1")
           /\ create_user(1, s, "e1", 0, 0)
    \/ create_user_timestamp(1)
    \/ create_user_insert(1)

SpecShard == InitShard /\ [][NextShard]_vars

(***************************************************************************)
(* SpecKey: the sharded class is asked for the engine of a service name.   *)
(***************************************************************************)
Chars == {"a", "-", "1"}
\* Service names: a letter, then up to MaxName - 1 further characters.
Names ==
    {s \in UNION {[1..n -> Chars] : n \in 1..MaxName} : s[1] = "a"}

InitKey ==
    /\ sharded = TRUE
    /\ is_sqlite = TRUE
    /\ services = ServicesTable(TRUE)
    /\ cache = {}
    /\ nodes = {}
    /\ users = {}
    /\ lastuid = [db \in AllDbs |-> 0]
    /\ clock = 0
    /\ name \in Names
    /\ InitCallers

NextKey == \E p \in Procs : get_engine_call(p)

SpecKey == InitKey /\ [][NextKey]_vars

(***************************************************************************)
(* SpecCleanup: one caller rotates the identity "e1" of sync-1.0 and reads *)
(* the replaced records of a service for garbage collection.  sync-1.5     *)
(* already holds a record replaced at time 1 and its successor.            *)
(***************************************************************************)
CleanupStart == 1

CleanupRows ==
    CreatedRows \cup
    {[db |-> MAIN_DB, uid |-> 2, service |-> 2, email |-> "e1",
      node |-> "n1", generation |-> 0, client_state |-> 0,
      created_at |-> 0, replaced_at |-> CleanupStart],
     [db |-> MAIN_DB, uid |-> 3, service |-> 2, email |-> "e1",
      node |-> "n1", generation |-> 0, client_state |-> 1,
      created_at |-> CleanupStart, replaced_at |-> NULL]}

InitCleanup ==
    /\ sharded = FALSE
    /\ is_sqlite = TRUE
    /\ services = ServicesTable(FALSE)
    /\ cache = {<<SYNC_1_0, 1>>, <<SYNC_1_5, 2>>}
    /\ nodes = CountersUpdated(
                   CountersUpdated(DefaultNodes, MAIN_DB, 1, "n1"),
                   MAIN_DB, 2, "n1")
    /\ users = CleanupRows
    /\ lastuid = [db \in AllDbs |->
                     IF db = MAIN_DB THEN Cardinality(CleanupRows) ELSE 0]
    /\ clock = CleanupStart
    /\ name = <<>>
    /\ InitCallers

TickCleanup ==
    /\ clock < CleanupStart + MaxClock
    /\ clock' = clock + 1
    /\ UNCHANGED <<config, services, cache, nodes, users, lastuid,
                   pc, user, loc, err, name>>

\* grace_period arguments (times 1000): the default -1, 0, and 1 or 2 ms.
GraceArgs == {-1000, 0, 1, 2}
Limits == {1, 2, 100}

NextCleanup ==
    \/ TickCleanup
    \/ get_user(1, SYNC_1_0, "e1")
    \/ \E c \in ClientStates :
           /\ Room(Cardinality(CleanupRows) + MaxRows - 1)
           /\ update_user_client_state(1, SYNC_1_0, None, c)
    \/ update_user_insert(1)
    \/ update_user_replace(1)
    \/ \E s \in SyncServices, m \in GraceArgs, l \in Limits :
           get_old_user_records(1, s, m, l)

SpecCleanup == InitCleanup /\ [][NextCleanup]_vars

(***************************************************************************)
(* SpecPatterns: callers list the service patterns of the sharded class    *)
(* while any of its databases may fail.  The two shards are separate       *)
(* databases, or (as in the tests) the same database under two keys.       *)
(***************************************************************************)
ShardDbs == {dbkey(SYNC_1_0), dbkey(QUEUEY_1_0)}

\* self._dbs.items(): the shards in either order.
ShardOrders ==
    {<<dbkey(SYNC_1_0), dbkey(QUEUEY_1_0)>>,
     <<dbkey(QUEUEY_1_0), dbkey(SYNC_1_0)>>}

\* Both keys name one database: each sees all three services.
SharedServicesTable ==
    {[db |-> db, id |-> r.id, service |-> r.service] :
        db \in ShardDbs, r \in ServicesTable(FALSE)}

InitPatterns ==
    /\ sharded = TRUE
    /\ is_sqlite = TRUE
    /\ services \in {ServicesTable(TRUE), SharedServicesTable}
    /\ cache = {}
    /\ nodes = {}
    /\ users = {}
    /\ lastuid = [db \in AllDbs |-> 0]
    /\ clock = 0
    /\ name = <<>>
    /\ InitCallers

NextPatterns ==
    \/ \E p \in Procs, order \in ShardOrders, failing \in SUBSET ShardDbs :
           get_patterns(p, order, failing)
    \/ \E p \in Procs, s \in AllServices : get_user(p, s, "e1")

SpecPatterns == InitPatterns /\ [][NextPatterns]_vars

(***************************************************************************)
(* SpecShardRetire: one caller of the sharded class creates users in both  *)
(* shards and retires identities, with or without an explicit engine.      *)
(***************************************************************************)
ShardDefaultNodes ==
    {NodeRow(dbkey(SYNC_1_0), 1, "n1", MaxLoad, MaxLoad, 0, 0),
     NodeRow(dbkey(SYNC_1_5), 2, "n2", MaxLoad, MaxLoad, 0, 0),
     NodeRow(dbkey(QUEUEY_1_0), 1, "n3", MaxLoad, MaxLoad, 0, 0)}

\* The users the caller creates: "e1" in both shards, "e2" in one.
ShardCreations ==
    {<<SYNC_1_0, "e1">>, <<QUEUEY_1_0, "e1">>, <<SYNC_1_0, "e2">>}

InitShardRetire ==
    /\ sharded = TRUE
    /\ is_sqlite = TRUE
    /\ services = ServicesTable(TRUE)
    /\ cache = {}
    /\ nodes = ShardDefaultNodes
    /\ users = {}
    /\ lastuid = [db \in AllDbs |-> 0]
    /\ clock = 0
    /\ name = <<>>
    /\ InitCallers

NextShardRetire ==
    \/ Tick
    \/ \E c \in ShardCreations :
           /\ Room(MaxRows) /\ NoRecord(c[1], c[2])
           /\ create_user(1, c[1], c[2], 0, 0)
    \/ get_best_node_update(1)
    \/ create_user_timestamp(1)
    \/ create_user_insert(1)
    \/ \E engine \in {NoEngine} \cup ShardDbs :
           retire_user(1, "e1", engine)
    \/ retire_user_execute(1)

SpecShardRetire == InitShardRetire /\ [][NextShardRetire]_vars

(***************************************************************************)
(* SpecUnknown: one caller uses registered service names and one that is   *)
(* not registered, on a store that holds a record of "e1" in sync-1.0.     *)
(***************************************************************************)
SomeServices == {SYNC_1_0, SYNC_1_5, UNKNOWN_SVC}

\* One node per sync service with one free slot each; "e1" is on n1.
ScarceNodes ==
    {NodeRow(MAIN_DB, 1, "n1", 2, 1, 1, 0),
     NodeRow(MAIN_DB, 2, "n1", 1, 1, 0, 0)}

InitUnknown ==
    /\ sharded = FALSE
    /\ is_sqlite = TRUE
    /\ services = ServicesTable(FALSE)
    /\ cache = {}
    /\ nodes = ScarceNodes
    /\ users = CreatedRows
    /\ lastuid = [db \in AllDbs |-> IF db = MAIN_DB THEN 1 ELSE 0]
    /\ clock = 0
    /\ name = <<>>
    /\ InitCallers

NextUnknown ==
    \/ \E s \in SomeServices : get_user(1, s, "e1")
    \/ \E s \in SomeServices : get_best_node(1, s)
    \/ get_best_node_update(1)
    \/ \E s \in SomeServices :
           /\ Room(MaxRows)
           /\ KnownService(s) => NoRecord(s, "e1")
           /\ create_user(1, s, "e1", 0, 0)
    \/ create_user_timestamp(1)
    \/ create_user_insert(1)
    \/ \E s \in SomeServices, g \in {None, MaxGen} :
           update_user_generation(1, s, g)
    \/ \E s \in SomeServices, c \in 0..1 :
           /\ Room(MaxRows)
           /\ update_user_client_state(1, s, None, c)
    \/ update_user_insert(1)
    \/ update_user_IntegrityError(1)
    \/ update_user_replace(1)
    \/ \E s \in SomeServices, uid \in 1..2 : delete_user_record(1, s, uid)

SpecUnknown == InitUnknown /\ [][NextUnknown]_vars

(***************************************************************************)
(* SpecRotate: one caller rotates the client state of the identity "e1"    *)
(* of sync-1.0, with or without a generation, and deletes records.         *)
(***************************************************************************)
NextRotate ==
    \/ Tick
    \/ get_user(1, SYNC_1_0, "e1")
    \/ \E g \in {None} \cup Gens, c \in ClientStates :
           /\ Room(MaxRows) /\ lastuid[MAIN_DB] < MaxRows
           /\ update_user_client_state(1, SYNC_1_0, g, c)
    \/ update_user_insert(1)
    \/ update_user_replace(1)
    \/ \E g \in Gens : update_user_generation(1, SYNC_1_0, g)
    \/ \E uid \in 1..MaxRows : delete_user_record(1, SYNC_1_0, uid)

SpecRotate == InitCreated /\ [][NextRotate]_vars

(***************************************************************************)
(* SpecFrame: one caller bumps generations and retires identities on a     *)
(* store that holds a rotated chain of "e1" in sync-1.0, a record of "e1"  *)
(* in sync-1.5 and a record of "e2" in sync-1.0.                           *)
(***************************************************************************)
FrameRows ==
    {[db |-> MAIN_DB, uid |-> 1, service |-> 1, email |-> "e1",
      node |-> "n1", generation |-> 0, client_state |-> 0,
      created_at |-> 0, replaced_at |-> 1],
     [db |-> MAIN_DB, uid |-> 2, service |-> 1, email |-> "e1",
      node |-> "n1", generation |-> 0, client_state |-> 1,
      created_at |-> 1, replaced_at |-> NULL],
     [db |-> MAIN_DB, uid |-> 3, service |-> 2, email |-> "e1",
      node |-> "n1", generation |-> 0, client_state |-> 0,
      created_at |-> 1, replaced_at |-> NULL],
     [db |-> MAIN_DB, uid |-> 4, service |-> 1, email |-> "e2",
      node |-> "n2", generation |-> 0, client_state |-> 0,
      created_at |-> 1, replaced_at |-> NULL]}

InitFrame ==
    /\ sharded = FALSE
    /\ is_sqlite = TRUE
    /\ services = ServicesTable(FALSE)
    /\ cache = {<<SYNC_1_0, 1>>, <<SYNC_1_5, 2>>}
    /\ nodes = CountersUpdated(CountersUpdated(
                   CountersUpdated(DefaultNodes, MAIN_DB, 1, "n1"),
                   MAIN_DB, 2, "n1"), MAIN_DB, 1, "n2")
    /\ users = FrameRows
    /\ lastuid = [db \in AllDbs |->
                     IF db = MAIN_DB THEN Cardinality(FrameRows) ELSE 0]
    /\ clock = 1
    /\ name = <<>>
    /\ InitCallers

NextFrame ==
    \/ Tick
    \/ \E s \in SyncServices, e \in Emails : get_user(1, s, e)
    \/ \E s \in SyncServices, g \in {None} \cup Gens :
           update_user_generation(1, s, g)
    \/ \E e \in Emails : retire_user(1, e, NoEngine)
    \/ retire_user_execute(1)

SpecFrame == InitFrame /\ [][NextFrame]_vars

(***************************************************************************)
(* SpecAlloc: two callers run get_best_node concurrently.  add_node has    *)
(* stored two empty nodes for sync-1.0, with any capacity and any number   *)
(* of available slots, and for sync-1.5 a node with the URI of the first.  *)
(***************************************************************************)
AllocTables ==
    {{NodeRow(MAIN_DB, 1, "n1", c1, a1, 0, 0),
      NodeRow(MAIN_DB, 1, "n2", c2, a2, 0, 0),
      NodeRow(MAIN_DB, 2, "n1", 1, 1, 0, 0)} :
        c1 \in Capacities, c2 \in Capacities,
        a1 \in 0..MaxLoad, a2 \in 0..MaxLoad}

InitAlloc ==
    /\ sharded = FALSE
    /\ is_sqlite \in BOOLEAN
    /\ services = ServicesTable(FALSE)
    /\ cache = {}
    /\ nodes \in AllocTables
    /\ users = {}
    /\ lastuid = [db \in AllDbs |-> 0]
    /\ clock = 0
    /\ name = <<>>
    /\ InitCallers

NextAlloc ==
    \/ \E p \in Procs, s \in SyncServices : get_best_node(p, s)
    \/ \E p \in Procs : get_best_node_update(p)

SpecAlloc == InitAlloc /\ [][NextAlloc]_vars

(***************************************************************************)
(* SpecAllocSeq: one caller runs get_best_node, one call after the other,  *)
(* on nodes that add_node stored with 0 <= current_load <= capacity and    *)
(* available >= 0.                                                         *)
(***************************************************************************)
SeqTables ==
    {T \in {{NodeRow(MAIN_DB, 1, "n1", c1, a1, l1, 0),
             NodeRow(MAIN_DB, 1, "n2", c2, a2, l2, 0),
             NodeRow(MAIN_DB, 2, "n1", 1, 1, 0, 0)} :
               c1 \in Capacities, c2 \in Capacities,
               l1 \in Loads, l2 \in Loads,
               a1 \in 0..MaxLoad, a2 \in 0..MaxLoad} :
        \A n \in T : n.current_load <= n.capacity}

InitAllocSeq ==
    /\ sharded = FALSE
    /\ is_sqlite \in BOOLEAN
    /\ services = ServicesTable(FALSE)
    /\ cache = {}
    /\ nodes \in SeqTables
    /\ users = {}
    /\ lastuid = [db \in AllDbs |-> 0]
    /\ clock = 0
    /\ name = <<>>
    /\ InitCallers

NextAllocSeq ==
    \/ \E s \in SyncServices : get_best_node(1, s)
    \/ get_best_node_update(1)

SpecAllocSeq == InitAllocSeq /\ [][NextAllocSeq]_vars

(***************************************************************************)
(* SpecDict: caller 1 fetches the identity "e1" of sync-1.0 and bumps its  *)
(* generation, while caller 2 bumps it too, rotates its client state or    *)
(* retires the identity.                                                   *)
(***************************************************************************)
NextDict ==
    \/ Tick
    \/ \E p \in Procs : get_user(p, SYNC_1_0, "e1")
    \/ \E p \in Procs, g \in Gens : update_user_generation(p, SYNC_1_0, g)
    \/ /\ Room(MaxRows)
       /\ update_user_client_state(2, SYNC_1_0, None, 1)
    \/ update_user_insert(2)
    \/ update_user_replace(2)
    \/ retire_user(2, "e1", NoEngine)
    \/ retire_user_execute(2)

SpecDict == InitCreated /\ [][NextDict]_vars

(***************************************************************************)
(* SpecCollect: three callers fetch the identity "e1" of sync-1.0 and each *)
(* rotates its client state once, callers 1 and 2 to the same value and    *)
(* caller 3 to another; caller 1 then collects garbage: it reads the       *)
(* records replaced before now and deletes records it was given.           *)
(***************************************************************************)
Rotators == {1, 2, 3}

\* The client state caller p rotates to.
RotatesTo(p) == IF p = 3 THEN 2 ELSE 1

InitCollect ==
    /\ sharded = FALSE
    /\ is_sqlite = TRUE
    /\ services = ServicesTable(FALSE)
    /\ cache = {<<SYNC_1_0, 1>>}
    /\ nodes = CountersUpdated(DefaultNodes, MAIN_DB, 1, "n1")
    /\ users = CreatedRows
    /\ lastuid = [db \in AllDbs |-> IF db = MAIN_DB THEN 1 ELSE 0]
    /\ clock = 0
    /\ name = <<>>
    /\ pc = [p \in Rotators |-> "idle"]
    /\ user = [p \in Rotators |-> NoneUser]
    /\ loc = [p \in Rotators |-> IdleLoc]
    /\ err = [p \in Rotators |-> ""]

TickCollect ==
    /\ clock < MaxClock + 1
    /\ clock' = clock + 1
    /\ UNCHANGED <<config, services, cache, nodes, users, lastuid,
                   pc, user, loc, err, name>>

\* The uids get_old_user_records gave to caller p.
GivenUids(p) ==
    IF loc[p].op = "get_old_user_records"
    THEN {loc[p].rows[i].uid : i \in DOMAIN loc[p].rows}
    ELSE {}

NextCollect ==
    \/ TickCollect
    \/ \E p \in Rotators :
           /\ user[p] = NoneUser
           /\ get_user(p, SYNC_1_0, "e1")
    \/ \E p \in Rotators :
           /\ user[p].uid = 1 /\ err[p] = ""
           /\ update_user_client_state(p, SYNC_1_0, None, RotatesTo(p))
    \/ \E p \in Rotators : update_user_insert(p)
    \/ \E p \in Rotators : update_user_IntegrityError(p)
    \/ \E p \in Rotators : update_user_replace(p)
    \/ /\ user[1].uid > 1
       /\ get_old_user_records(1, SYNC_1_0, 0, 100)
    \/ \E uid \in GivenUids(1) : delete_user_record(1, SYNC_1_0, uid)

SpecCollect == InitCollect /\ [][NextCollect]_vars

(***************************************************************************)
(* Properties.                                                             *)
(***************************************************************************)
Rejected == "previously seen client-state string"

\* What get_user reports for identity "e1" of sync-1.0 (unsharded).
Active == GetUserResult(MAIN_DB, 1, "e1")

\* The client states of the RECORD_LIMIT most recent records of "e1".
RecentStates ==
    LET S == UserRecords(MAIN_DB, 1, "e1")
    IN  {r.client_state : r \in {x \in S : Rank(x, S) < RECORD_LIMIT}}

\* Every client state a record of "e1" ever carried (no record is deleted
\* in the specifications that use it).
EverUsedStates == {r.client_state : r \in UserRecords(MAIN_DB, 1, "e1")}

\* C1, as stated: every attempt to rotate to a client state that was ever
\* the active or a previous value of the identity fails with the
\* previously-seen error, however long the history is.
C1_EverUsedStateRejected ==
    [][\A g \in {None, 1}, c \in EverUsedStates :
          update_user_client_state(1, SYNC_1_0, g, c) => err'[1] = Rejected]_vars

\* C1, amended: an attempt of a sequential caller to rotate to the client
\* state of one of the identity's RECORD_LIMIT most recent records fails
\* with the previously-seen error, starts no insert and leaves the users
\* table as it is.
C1_RecentStateRejected ==
    [][\A g \in {None, 1}, c \in RecentStates :
          update_user_client_state(1, SYNC_1_0, g, c)
              => /\ err'[1] = Rejected
                 /\ pc'[1] = "idle"
                 /\ users' = users]_vars

\* C1 witness: an old value was rejected although the history is longer
\* than the window.
C1_Witness ==
    /\ err[1] = Rejected
    /\ Cardinality(UserRecords(MAIN_DB, 1, "e1")) > RECORD_LIMIT
    /\ user[1].client_state = Active.client_state

\* What get_user reports for email e in the service with id sid.
Reported(sid, e) == GetUserResult(MAIN_DB, sid, e)

\* C2: across generation-only update_user calls the generation get_user
\* reports never decreases; a call with a greater generation sets it to
\* that value and a call with a smaller or equal one changes no row.
C2_GenerationOnlyMonotone ==
    [][/\ \A sid \in {1, 2}, e \in Emails :
             Reported(sid, e) # NoneUser
                 => Reported(sid, e)'.generation >= Reported(sid, e).generation
       /\ \A s \in SyncServices, g \in Gens :
             LET sid == get_service_id(s)
                 before == Reported(sid, user[1].email)
             IN  update_user_generation(1, s, g) /\ before # NoneUser
                 => /\ g > before.generation
                         => Reported(sid, user[1].email)'.generation = g
                    /\ g <= before.generation => users' = users]_vars

\* C2 witness: a bump took effect, and store and dict agree on it.
C2_Witness ==
    /\ pc[1] = "idle"
    /\ user[1] # NoneUser
    /\ \E sid \in {1, 2} :
          /\ Reported(sid, user[1].email).generation = MaxGen
          /\ Reported(sid, user[1].email).uid = user[1].uid
    /\ user[1].generation = MaxGen
    /\ MaxGen > 0

\* C3: with concurrent callers, each updating from the dict it fetched
\* earlier, the generation of the record get_user returns never decreases
\* from one state to the next.
C3_NoGenerationRollback ==
    [][Active'.generation >= Active.generation]_vars

\* Both create_user calls have returned a user without error.
BothCreated ==
    \A p \in Procs : pc[p] = "idle" /\ user[p] # NoneUser /\ err[p] = ""

\* Both callers hold the same uid and node, and the identity has one record.
SameRecord ==
    /\ user[1].uid = user[2].uid
    /\ user[1].node = user[2].node
    /\ Cardinality(UserRecords(MAIN_DB, 1, "e1")) = 1

Selected(p) == pc[p] = "idle" /\ pc'[p] = "gbn_update"

\* The rows of the requested service that carry the selected node URI.
SelectedRows(p) ==
    {n \in nodes : /\ n.db = get_engine(loc'[p].service)
                   /\ n.service = get_service_id(loc'[p].service)
                   /\ n.node = loc'[p].node}

\* C5: the node get_best_node selects (also on behalf of create_user) is
\* registered for the requested service and, at the time of selection, is
\* not downed, has available > 0 and has current_load < capacity.
C5_SelectedNodeEligible ==
    [][\A p \in Procs : Selected(p) =>
          /\ SelectedRows(p) # {}
          /\ \A n \in SelectedRows(p) :
                n.downed = 0 /\ n.available > 0
                    /\ n.current_load < n.capacity]_vars

\* C5 witness: a node was selected while another node of the service was
\* downed with a lower load ratio, and a node of the other service was
\* empty.
C5_Witness ==
    /\ pc[1] = "gbn_update"
    /\ loc[1].service = SYNC_1_0
    /\ \E n, m \in nodes :
          /\ n.service = 1 /\ n.node = loc[1].node
          /\ m.service = 1 /\ m.downed = 1 /\ m.available > 0
          /\ m.current_load < m.capacity /\ RatioLess(m, n)
    /\ \E n \in nodes : n.service = 2 /\ n.current_load = 0

\* C6: the node get_best_node selects has a minimal current_load/capacity
\* ratio among the eligible nodes of the requested service.
C6_SelectedNodeMinimalRatio ==
    [][\A p \in Procs : Selected(p) =>
          \A n \in SelectedRows(p) :
             \A m \in nodes :
                (/\ m.db = MAIN_DB /\ m.service = n.service
                 /\ m.downed = 0 /\ m.available > 0
                 /\ m.current_load < m.capacity)
                => n.current_load * m.capacity
                       <= m.current_load * n.capacity]_vars

\* The records of "e1" in sync-1.0 that are not marked as replaced.
Unreplaced == {r \in UserRecords(MAIN_DB, 1, "e1") : r.replaced_at = NULL}

\* C7: after completed, non-overlapping create_user and rotating
\* update_user calls, whatever timestamps they read, exactly one record of
\* the identity has replaced_at = null, and get_user returns it.
C7_ExactlyOneUnreplaced ==
    pc[1] = "idle" /\ UserRecords(MAIN_DB, 1, "e1") # {}
        => /\ Cardinality(Unreplaced) = 1
           /\ \A r \in Unreplaced : r.uid = Active.uid

\* C8: retire_user replaces every unreplaced record of the identity, in
\* every service, with generation 9223372036854775807, and from then on
\* get_user never reports a smaller generation for it again.
C8_RetirementPermanent ==
    [][/\ retire_user_execute(1) =>
              \A r \in users' :
                  r.email = loc[1].email =>
                      /\ r.replaced_at # NULL
                      /\ (r \notin users => r.generation = BIGINT_MAX)
       /\ \A sid \in {1, 2} :
              Reported(sid, "e1").generation = BIGINT_MAX
                  => Reported(sid, "e1")'.generation = BIGINT_MAX]_vars

\* The node rows stored under the service s.
NodesOf(s) ==
    {n \in nodes : n.db = get_engine(s) /\ n.service = get_service_id(s)}

\* C9 (as stated): sync-1.0 and sync-1.5 share a shard, and a node added
\* under sync-1.0 serves allocation requests made under sync-1.5: such a
\* request gets a node whenever sync-1.0 has one with free capacity.
C9_NodeServesBothVersions ==
    [][/\ get_engine(SYNC_1_0) = get_engine(SYNC_1_5)
       /\ \A p \in Procs :
             (/\ get_best_node(p, SYNC_1_5)
              /\ \E n \in NodesOf(SYNC_1_0) :
                    /\ n.downed = 0 /\ n.available > 0
                    /\ n.current_load < n.capacity)
             => pc'[p] = "gbn_update"]_vars

\* C9 (amended): sync-1.0 and sync-1.5 share a shard, but a request under
\* sync-1.5 only gets nodes added under sync-1.5, and fails when there is
\* none, whatever nodes sync-1.0 has.
C9_SameShardOwnNodes ==
    [][/\ get_engine(SYNC_1_0) = get_engine(SYNC_1_5)
       /\ \A p \in Procs :
             /\ Selected(p) /\ loc'[p].service = SYNC_1_5
                   => \E n \in NodesOf(SYNC_1_5) : n.node = loc'[p].node
             /\ get_best_node(p, SYNC_1_5) /\ NodesOf(SYNC_1_5) = {}
                   => err'[p] = "unable to get a node"]_vars

\* C9 witness: a request under sync-1.5 has failed although the node of
\* sync-1.0, in the same shard, is empty (and so is the node of queuey).
C9_Witness ==
    /\ sharded
    /\ err[1] = "unable to get a node"
    /\ NodesOf(SYNC_1_5) = {}
    /\ \A n \in nodes : n.current_load = 0 /\ n.available > 0 /\ n.downed = 0
    /\ \E n \in NodesOf(SYNC_1_0) : n.db = dbkey(SYNC_1_5)

\* A version: digits and dots.
IsVersion(s) ==
    /\ s # <<>>
    /\ \A i \in 1..Len(s) :
          s[i] \in {"0", "1", "2", "3", "4", "5", "6", "7", "8", "9", "."}

\* The name without its trailing "-<version>", if it has one.
StripVersion(s) ==
    LET cut == {i \in 1..Len(s) :
                   s[i] = "-" /\ IsVersion(SubSeq(s, i + 1, Len(s)))}
    IN  IF cut = {} THEN s
        ELSE SubSeq(s, 1, (CHOOSE i \in cut : TRUE) - 1)

\* C10: the shard key of a service name is the name with only a trailing
\* "-<version>" removed (a name without one is its own key).
C10_KeyStripsOnlyVersion ==
    \A p \in Procs :
        loc[p].op = "_get_engine"
            => loc[p].engine = StripVersion(loc[p].service)

\* Caller 1 is between calls, holds a dict, and its last call succeeded.
Settled == pc[1] = "idle" /\ err[1] = "" /\ user[1] # NoneUser

C12_RejectedRotationChangesNothing ==
    [][\A g \in {None, MaxGen}, c \in ClientStates :
          update_user_client_state(1, SYNC_1_0, g, c) /\ err'[1] = Rejected
              => /\ users' = users
                 /\ nodes' = nodes
                 /\ user' = user
                 /\ pc'[1] = "idle"
                 /\ Active' = Active]_vars

\* C12 witness: a rotation back to an earlier client state was rejected.
C12_Witness ==
    /\ pc[1] = "idle"
    /\ err[1] = Rejected
    /\ user[1].old_client_states # {}
    /\ user[1] = Active
    /\ Cardinality(UserRecords(MAIN_DB, 1, "e1")) >= 2

\* The stored record with uid u (uids are unique within the database).
RecordOf(u) == CHOOSE r \in users : r.db = MAIN_DB /\ r.uid = u

\* What a get_old_user_records call of caller 1 returns, as stored records.
Returned == [i \in DOMAIN loc'[1].rows |-> RecordOf(loc'[1].rows[i].uid)]

\* The replaced records of the service with id sid.
ReplacedOf(sid) ==
    {r \in users : r.db = MAIN_DB /\ r.service = sid /\ r.replaced_at # NULL}

\* The part of C13 that holds for every call: the rows are replaced records
\* of the service, replaced before now minus the grace period, at most
\* limit of them, most recently replaced first, and no such record is left
\* out while there is room; the default grace period returns none.
OldRecordsSelected(s, m, l) ==
    LET sid == get_service_id(s)
        bound == clock - GraceMillis(m)
        R == Returned
        got == {R[i] : i \in DOMAIN R}
    IN  /\ Len(R) <= l
        /\ \A i \in DOMAIN R :
              /\ R[i].service = sid
              /\ R[i].replaced_at # NULL
              /\ R[i].replaced_at < bound
              /\ loc'[1].rows[i].node = R[i].node
        /\ \A i, j \in DOMAIN R :
              i < j => ReplacedBefore(R[i], R[j])
        /\ \A r \in ReplacedOf(sid) :
              r.replaced_at < bound /\ r \notin got
                  => Len(R) = l /\ \A i \in DOMAIN R : ReplacedBefore(R[i], r)
        /\ m < 0 => R = <<>>

\* C13 (as stated): the above, and with grace_period = 0 the call returns
\* every replaced record of the service (up to limit).
C13_GraceZeroReturnsAllReplaced ==
    [][\A s \in SyncServices, m \in GraceArgs, l \in Limits :
          get_old_user_records(1, s, m, l) =>
              /\ OldRecordsSelected(s, m, l)
              /\ m = 0 /\ Len(Returned) < l =>
                     {Returned[i] : i \in DOMAIN Returned}
                         = ReplacedOf(get_service_id(s))]_vars

\* C13 (amended): with grace_period = 0 the call returns every record of
\* the service replaced before the current millisecond (up to limit).
C13_OldRecordsOlderThanGrace ==
    [][\A s \in SyncServices, m \in GraceArgs, l \in Limits :
          get_old_user_records(1, s, m, l) =>
              /\ OldRecordsSelected(s, m, l)
              /\ m = 0 /\ Len(Returned) < l =>
                     {Returned[i] : i \in DOMAIN Returned}
                         = {r \in ReplacedOf(get_service_id(s)) :
                               r.replaced_at < clock}]_vars

\* C13 witness: a call with grace_period = 0 returned one record of
\* sync-1.0 while another was replaced in the current millisecond, and
\* sync-1.5 has a replaced record too.
C13_Witness ==
    /\ loc[1].op = "get_old_user_records"
    /\ loc[1].service = SYNC_1_0
    /\ loc[1].timestamp = clock
    /\ Len(loc[1].rows) = 1
    /\ ReplacedOf(2) # {}
    /\ \E r \in ReplacedOf(1) : r.replaced_at = clock

\* The rows (id, service) stored in the shards that answer.
AnsweringRows(failing) ==
    {[id |-> r.id, service |-> r.service] :
        r \in {x \in services : x.db \notin failing}}

\* C14: whatever subset of the shards fails, the sharded get_patterns
\* returns without raising exactly the service rows of the shards that
\* answered, each distinct row once.
C14_PatternsSkipFailingShards ==
    [][\A p \in Procs, order \in ShardOrders, failing \in SUBSET ShardDbs :
          get_patterns(p, order, failing) =>
              LET rows == loc'[p].rows
              IN  /\ err'[p] = ""
                  /\ pc'[p] = "idle"
                  /\ {rows[i] : i \in DOMAIN rows} = AnsweringRows(failing)
                  /\ \A i, j \in DOMAIN rows :
                        rows[i] = rows[j] => i = j]_vars

\* C14 witness: a get_patterns call returned rows, but not those of a
\* shard that holds other services.
C14_Witness ==
    /\ loc[1].op = "get_patterns"
    /\ err[1] = ""
    /\ loc[1].rows # <<>>
    /\ \E r \in services :
          \A i \in DOMAIN loc[1].rows : loc[1].rows[i].service # r.service

\* No node of service s can take a user: each is downed, full, or has
\* available = 0 (or s has no node at all).
NoneEligible(s) ==
    \A n \in NodesOf(s) :
        n.downed # 0 \/ n.available <= 0 \/ n.current_load >= n.capacity

\* C15: when no node of the service is eligible, get_best_node fails with
\* 'unable to get a node' and changes no node row, and create_user fails
\* the same way and inserts no user record.
C15_NoNodeFailsWithoutEffect ==
    [][\A s \in SyncServices :
          /\ NoneEligible(s)
          /\ get_best_node(1, s) \/ create_user(1, s, "e1", 0, 0)
          => /\ err'[1] = "unable to get a node"
             /\ pc'[1] = "idle"
             /\ nodes' = nodes
             /\ users' = users
             /\ lastuid' = lastuid]_vars

\* C15 witness: a request for sync-1.0 failed while all its nodes were
\* ineligible, one of them downed, and the node of sync-1.5 was free.
C15_Witness ==
    /\ pc[1] = "idle"
    /\ err[1] = "unable to get a node"
    /\ NoneEligible(SYNC_1_0)
    /\ ~NoneEligible(SYNC_1_5)
    /\ \E n \in NodesOf(SYNC_1_0) : n.downed = 1
    /\ users = {}

\* C16: in the sharded class retire_user without an engine fails with
\* NotImplementedError and modifies no record; with the engine of a shard
\* it replaces the identity's unreplaced records of that shard and leaves
\* every other shard (and every other identity) unchanged.
C16_ShardedRetireNeedsEngine ==
    [][retire_user_execute(1) =>
          LET l == loc[1]
          IN  IF l.engine = NoEngine
              THEN /\ err'[1] = "NotImplementedError"
                   /\ users' = users
              ELSE /\ err'[1] = ""
                   /\ \A r \in users :
                         r.db # l.engine \/ r.email # l.email
                             \/ r.replaced_at # NULL => r \in users'
                   /\ \A r \in users' :
                         r.db = l.engine /\ r.email = l.email
                             => r.replaced_at # NULL
                   /\ Cardinality(users') = Cardinality(users)
                   /\ {r.uid : r \in users'} = {r.uid : r \in users}]_vars

\* C16 witness: the identity was retired in the sync shard, its record in
\* the queuey shard is still active, and a call without engine has failed.
C16_Witness ==
    /\ sharded
    /\ pc[1] = "idle"
    /\ err[1] = "NotImplementedError"
    /\ \E r, q \in users :
          /\ r.email = q.email
          /\ r.db = dbkey(SYNC_1_0) /\ r.generation = BIGINT_MAX
          /\ r.replaced_at # NULL
          /\ q.db = dbkey(QUEUEY_1_0) /\ q.replaced_at = NULL

\* The step failed with 'unknown service' and changed neither the cache
\* nor any node or user row.
FailsUnknown ==
    /\ err'[1] = "unknown service"
    /\ pc'[1] = "idle"
    /\ cache' = cache
    /\ nodes' = nodes
    /\ users' = users
    /\ lastuid' = lastuid

\* The part of C17 that holds: a registered name resolves to its stored id
\* and is cached; with an unregistered name get_user, get_best_node,
\* create_user, delete_user_record and every update_user statement fail
\* with 'unknown service' and change no cache entry, node or user row.
ResolvesOrFailsUnknown ==
    /\ \A c \in cache' :
          \E r \in services : r.service = c[1] /\ r.id = c[2]
    /\ \A s \in {SYNC_1_0, SYNC_1_5} :
          get_user(1, s, "e1") =>
              /\ err'[1] = ""
              /\ \E r \in services :
                    /\ r.service = s /\ <<s, r.id>> \in cache'
                    /\ user'[1] = GetUserResult(MAIN_DB, r.id, "e1")
    /\ get_user(1, UNKNOWN_SVC, "e1") => FailsUnknown
    /\ get_best_node(1, UNKNOWN_SVC) => FailsUnknown
    /\ create_user(1, UNKNOWN_SVC, "e1", 0, 0) => FailsUnknown
    /\ \A uid \in 1..2 :
          delete_user_record(1, UNKNOWN_SVC, uid) => FailsUnknown
    /\ update_user_generation(1, UNKNOWN_SVC, MaxGen) => FailsUnknown
    /\ update_user_insert(1) /\ loc[1].service = UNKNOWN_SVC => FailsUnknown

\* C17 (as stated): the above, and update_user given an unregistered name
\* always fails with 'unknown service'.
C17_EveryOperationFailsUnknown ==
    [][/\ ResolvesOrFailsUnknown
       /\ update_user_generation(1, UNKNOWN_SVC, None) => FailsUnknown
       /\ \A c \in 0..1 :
             update_user_client_state(1, UNKNOWN_SVC, None, c)
                 => err'[1] \in {"", "unknown service"}]_vars

\* C17 (amended): update_user fails that way when it reaches a statement;
\* a call with neither generation nor client_state does nothing and
\* returns, and a previously-seen client_state is rejected as such first.
\* Neither changes a row.
C17_StatementsFailUnknown ==
    [][/\ ResolvesOrFailsUnknown
       /\ update_user_generation(1, UNKNOWN_SVC, None)
             => err'[1] = "" /\ users' = users /\ nodes' = nodes
                    /\ cache' = cache /\ user' = user
       /\ \A c \in 0..1 :
             update_user_client_state(1, UNKNOWN_SVC, None, c)
                 => /\ users' = users /\ nodes' = nodes /\ cache' = cache
                    /\ IF PreviouslySeen(user[1], c)
                       THEN err'[1] = Rejected /\ pc'[1] = "idle"
                       ELSE pc'[1] = "uu_insert"]_vars

\* C17 witness: an operation given the unregistered name has failed,
\* after a registered name was resolved and cached and a record inserted.
C17_Witness ==
    /\ pc[1] = "idle"
    /\ err[1] = "unknown service"
    /\ user[1] # NoneUser
    /\ <<SYNC_1_0, 1>> \in cache
    /\ \A c \in cache : c[1] # UNKNOWN_SVC
    /\ Cardinality(users) >= 2

\* The records the step inserts.
Inserted == users' \ users

\* C18: the insert of a rotation adds exactly one record; it carries the
\* node of the user's dict and of every record of the identity, and a uid
\* greater than every uid assigned in the store so far; no step of the
\* rotation changes a node row or runs the node allocation.
C18_RotationInsertsOneRecord ==
    [][/\ update_user_insert(1) /\ pc'[1] = "uu_replace" =>
             /\ users \subseteq users'
             /\ Cardinality(Inserted) = 1
             /\ \A r \in Inserted :
                   /\ r.node = user[1].node
                   /\ \A o \in UserRecords(MAIN_DB, 1, "e1") : o.node = r.node
                   /\ r.uid > lastuid[MAIN_DB]
                   /\ \A o \in users : o.db = r.db => o.uid < r.uid
                   /\ r.uid = user'[1].uid
       /\ pc[1] \in {"uu_insert", "uu_replace"} \/ pc'[1] = "uu_insert"
             => nodes' = nodes /\ pc'[1] # "gbn_update"
       /\ \A r \in users : r.uid <= lastuid[r.db]]_vars

\* C18 witness: a rotation has inserted a record after the record with the
\* largest uid had been deleted.
C18_Witness ==
    /\ pc[1] = "uu_replace"
    /\ \E r \in users :
          /\ r.uid = user[1].uid
          /\ r.uid = lastuid[MAIN_DB]
          /\ \A o \in users : o.uid # r.uid => o.uid < r.uid - 1
    /\ Cardinality(users) >= 2

\* C19: the record a rotation inserts has generation max(g_current,
\* g_given) when a generation is given and g_current otherwise, g_current
\* being the generation of the dict passed in; in sequential use it is
\* never lower than the generation of the record it supersedes.
C19_RotationGenerationIsMax ==
    [][/\ \A g \in {None} \cup Gens, c \in ClientStates :
             update_user_client_state(1, SYNC_1_0, g, c)
                 /\ pc'[1] = "uu_insert"
             => loc'[1].generation =
                    IF g = None THEN user[1].generation
                    ELSE IF g > user[1].generation THEN g
                    ELSE user[1].generation
       /\ update_user_insert(1) /\ pc'[1] = "uu_replace" =>
             \A r \in Inserted :
                 /\ r.generation = loc[1].generation
                 /\ r.generation >= user[1].generation
                 /\ \A o \in UserRecords(MAIN_DB, 1, "e1") :
                       o.generation <= r.generation
                 /\ user'[1].generation = r.generation]_vars

\* C19 witness: a rotation has inserted a record of the highest generation
\* on top of a record that already had a generation above 0.
C19_Witness ==
    /\ pc[1] = "uu_replace"
    /\ loc[1].generation = MaxGen
    /\ user[1].generation = MaxGen
    /\ \E o \in UserRecords(MAIN_DB, 1, "e1") :
          o.uid # user[1].uid /\ o.generation > 0

\* C20: a generation-only update_user call inserts and deletes no record
\* and changes no column but generation, and that only in unreplaced
\* records of the dict's identity in the given service; every node row
\* stays as it is.
C20_GenerationOnlyFrame ==
    [][\A s \in SyncServices, g \in {None} \cup Gens :
          update_user_generation(1, s, g) =>
              /\ Cardinality(users') = Cardinality(users)
              /\ \A r \in users :
                    \E q \in users' :
                       /\ q = [r EXCEPT !.generation = q.generation]
                       /\ (\/ r.replaced_at # NULL
                           \/ r.email # user[1].email
                           \/ r.service # get_service_id(s)) => q = r
              /\ nodes' = nodes
              /\ lastuid' = lastuid]_vars

\* C20 witness: the active record of "e1" in sync-1.0 was bumped to the
\* highest generation; its replaced predecessor, its record in sync-1.5 and
\* the retired record of "e2" kept their generations.
C20_Witness ==
    /\ pc[1] = "idle"
    /\ user[1].email = "e1"
    /\ user[1].generation = MaxGen
    /\ \E r1, r2, r3, r4 \in users :
          /\ r1.uid = 1 /\ r1.generation = 0
          /\ r2.uid = 2 /\ r2.generation = MaxGen /\ r2.replaced_at = NULL
          /\ r3.uid = 3 /\ r3.generation = 0
          /\ r4.uid = 4 /\ r4.generation = BIGINT_MAX

\* C21: the update of a successful get_best_node changes exactly one node
\* row, the one of the returned node under the requested service: its
\* available goes down by 1 and its current_load up by 1; its other fields
\* and every other node row (also the row of the same URI under another
\* service) stay as they are, and no row is added or removed.
C21_AllocationChangesOneNodeRow ==
    [][\A p \in Procs :
          get_best_node_update(p) /\ loc[p].op = "get_best_node" =>
             \E n \in nodes :
                /\ n.db = MAIN_DB
                /\ n.service = get_service_id(loc[p].service)
                /\ n.node = loc[p].node
                /\ nodes' = (nodes \ {n}) \cup
                       {[n EXCEPT !.available = n.available - 1,
                                  !.current_load = n.current_load + 1]}
                /\ Cardinality(nodes') = Cardinality(nodes)]_vars

\* C21 witness: one allocation under sync-1.0 has returned; it took a slot
\* of n1, and neither n2 nor the n1 of sync-1.5 has moved.
C21_Witness ==
    /\ \A p \in Procs : pc[p] = "idle" /\ err[p] = ""
    /\ \E n \in nodes : /\ n.service = 1 /\ n.node = "n1"
                        /\ n.current_load = 1
    /\ \E n \in nodes : /\ n.service = 1 /\ n.node = "n2"
                        /\ n.current_load = 0 /\ n.available > 0
    /\ \E n \in nodes : /\ n.service = 2 /\ n.node = "n1"
                        /\ n.current_load = 0 /\ n.available = 1

\* The allocations of node row n that complete on this step: the callers
\* whose get_best_node, having selected n, leaves its update statement.
AllocationsMade(n) ==
    Cardinality({p \in Procs :
        /\ pc[p] = "gbn_update" /\ pc'[p] # "gbn_update"
        /\ get_engine(loc[p].service) = n.db
        /\ get_service_id(loc[p].service) = n.service
        /\ loc[p].node = n.node})

\* C22: no interleaving of two get_best_node calls loses an update: on
\* every step the current_load of every node row goes up, and its
\* available down, by exactly the number of allocations of that row that
\* complete on the step, also when both callers selected the same row
\* before either update.
C22_NoAllocationLost ==
    [][/\ Cardinality(nodes') = Cardinality(nodes)
       /\ \A n \in nodes :
             [n EXCEPT !.current_load = n.current_load + AllocationsMade(n),
                       !.available = n.available - AllocationsMade(n)]
                 \in nodes']_vars

\* C22 witness: both callers selected the node with one free slot before
\* either update; after both updates the node holds two users with a
\* capacity of one, and its available is negative.
C22_Witness ==
    /\ \A p \in Procs : pc[p] = "idle" /\ err[p] = ""
    /\ \E n \in nodes : /\ n.capacity = 1
                        /\ n.current_load = 2
                        /\ n.current_load > n.capacity
                        /\ n.available = -1

\* No node row is over its limits.
WithinLimits(rows) ==
    \A n \in rows : /\ n.available >= 0
                    /\ 0 <= n.current_load
                    /\ n.current_load <= n.capacity

\* C23: when get_best_node calls run one at a time on nodes that start
\* within their limits, every node keeps available >= 0 and
\* current_load <= capacity in every state, and a node with available = 0
\* or current_load = capacity is not selected.
C23_SequentialAllocationWithinLimits ==
    [][/\ WithinLimits(nodes) /\ WithinLimits(nodes')
       /\ Selected(1) => \A n \in SelectedRows(1) :
                             /\ n.available # 0
                             /\ n.current_load # n.capacity]_vars

\* C23 witness: a request failed with every node exhausted; the node of
\* sync-1.5, stored empty, was filled to its capacity by an allocation.
C23_Witness ==
    /\ pc[1] = "idle"
    /\ err[1] = "unable to get a node"
    /\ \A n \in nodes : n.available = 0 \/ n.current_load = n.capacity
    /\ \E n \in nodes : /\ n.service = 2 /\ n.current_load = 1
                        /\ n.capacity = 1 /\ n.available = 0
    /\ \E n \in nodes : /\ n.service = 1 /\ n.available = 0
                        /\ n.current_load < n.capacity
    /\ \E n \in nodes : /\ n.service = 1 /\ n.available > 0
                        /\ n.current_load = n.capacity

\* C24: on every selection the ordering the backend uses (on non-sqlite
\* backends log(current_load)/log(capacity)) orders every pair of eligible
\* nodes of the requested service as current_load/capacity does.
C24_LogOrderIsRatioOrder ==
    [][\A p \in Procs : Selected(p) =>
          \A a, b \in Eligible(get_engine(loc'[p].service),
                               get_service_id(loc'[p].service)) :
             OrderedBefore(a, b) <=> RatioLess(a, b)]_vars

\* C25: delete_user_record(service, uid) on a registered service removes
\* the record with that uid in that service and nothing else: every other
\* user record and every node row is unchanged (no slot is given back), and
\* a uid that is not stored, or is stored under another service, removes
\* nothing and raises no error.
C25_DeleteRemovesOneRecord ==
    [][\A s \in SyncServices, uid \in 1..2 :
          delete_user_record(1, s, uid) =>
             /\ users' \subseteq users
             /\ users \ users' =
                    {r \in users : /\ r.service = get_service_id(s)
                                   /\ r.uid = uid}
             /\ Cardinality(users \ users') <= 1
             /\ nodes' = nodes
             /\ lastuid' = lastuid
             /\ user' = user
             /\ err'[1] = ""]_vars

\* C25 witness: the record of "e1" in sync-1.0 (uid 1) is deleted, its
\* record in sync-1.5 (uid 2) is still stored, and the node of sync-1.0
\* still counts the deleted user.
C25_Witness ==
    /\ pc[1] = "idle" /\ err[1] = ""
    /\ ~ \E r \in users : r.service = 1
    /\ \E r \in users : r.service = 2 /\ r.uid = 2
    /\ \E n \in nodes : /\ n.service = 1 /\ n.node = "n1"
                        /\ n.current_load = 1

\* C26: with concurrent rotations, one of which may lose the uniqueness
\* conflict on its insert, the identity "e1" of sync-1.0, which has an
\* unreplaced record from the start, has one in every state: no statement
\* of update_user, the loser's "mark old records replaced" included, marks
\* the last unreplaced record.
C26_RotationKeepsUnreplacedRecord ==
    Unreplaced # {}

\* The user records bound to node row n.
BoundTo(n) ==
    {r \in users : r.db = n.db /\ r.service = n.service /\ r.node = n.node}

\* C27: once the create_user calls have returned, also those that lost a
\* creation race, every node, stored empty, has a current_load equal to
\* the number of user records created with it, and an available that went
\* down by the same number.
C27_NodeCountersMatchRecords ==
    (\A p \in Procs : pc[p] = "idle") =>
        \A n \in nodes :
            /\ n.current_load = Cardinality(BoundTo(n))
            /\ n.available = n.capacity - Cardinality(BoundTo(n))

\* C28, as stated: after a generation-only update_user the generation in
\* the caller's dict is the one stored for the record get_user returns,
\* whatever other callers did since the dict was fetched.
C28_DictGenerationIsStored ==
    [][\A p \in Procs, g \in Gens :
          update_user_generation(p, SYNC_1_0, g)
              => user'[p].generation = Active'.generation]_vars

\* The dict of caller p is up to date: it names the record get_user
\* returns, with its generation, and that record is unreplaced.
UpToDate(p) ==
    /\ user[p].uid = Active.uid
    /\ user[p].generation = Active.generation
    /\ \E r \in Unreplaced : r.uid = Active.uid

\* C28, amended: a generation-only update_user made with an up-to-date
\* dict leaves in the dict the generation stored for the record get_user
\* returns, the greater of the two.
C28_FreshDictGenerationIsStored ==
    [][\A p \in Procs, g \in Gens :
          update_user_generation(p, SYNC_1_0, g) /\ UpToDate(p)
              => /\ user'[p].generation = Active'.generation
                 /\ user'[p].generation = Max(g, user[p].generation)]_vars

\* C28 witness: caller 1 bumped the record a rotation created to the
\* highest generation with an up-to-date dict, while the dict of caller 2
\* is behind.
C28_Witness ==
    /\ pc[1] = "idle" /\ err[1] = ""
    /\ UpToDate(1)
    /\ Active.uid > 1
    /\ user[1].generation = MaxGen
    /\ user[2] # NoneUser
    /\ user[2].generation < Active.generation

\* C29: a collector that deletes only records get_old_user_records gave
\* it, interleaved with update_user calls, never deletes a record with
\* replaced_at = null, and its deletes never change the uid, node,
\* generation or client_state get_user returns for an identity that has an
\* unreplaced record.
C29_CollectionKeepsLiveIdentities ==
    [][\A uid \in GivenUids(1) :
          delete_user_record(1, SYNC_1_0, uid) =>
             /\ \A r \in users \ users' : r.replaced_at # NULL
             /\ Unreplaced # {} =>
                   /\ Active'.uid = Active.uid
                   /\ Active'.node = Active.node
                   /\ Active'.generation = Active.generation
                   /\ Active'.client_state = Active.client_state]_vars

=============================================================================
